---- MODULE Spec2Model ----
(***************************************************************************)
(* A state-machine model of the 3D browser client src/web/main.js: the     *)
(* module-level state (socket, playerId, gameState, selection, the three   *)
(* mesh maps), the WebSocket handlers installed by openSocket, and the      *)
(* mouse and production-button handlers.  One action is one event-loop     *)
(* turn: the JavaScript handlers run to completion.  The picking functions  *)
(* (pickEntity of the canvas and isometric clients, pickEntityAtEvent of   *)
(* main.js) and the coordinate mappers (getGroundPoint, getMapPoint) are   *)
(* pure and are exercised by a specification of their own, PickSpec.  The  *)
(* server's messages are well formed in Spec; MalformedSpec adds messages  *)
(* of an unknown type and `state` payloads that lack a list.  The two     *)
(* 2D canvas clients of src/unnamed/part_003 (the matchmaking client and   *)
(* the ChronoFront client) are modelled as the records `match` and         *)
(* `chrono`, each with the module-level state of its script, and run       *)
(* under MatchSpec and ChronoSpec.                                         *)
(***************************************************************************)
EXTENDS Integers, Sequences, FiniteSets, TLC

\* ------------------------------------------------------------------------
\* Bounds of the model
\* ------------------------------------------------------------------------

\* number of WebSocket objects the connect button may create in one run
MaxSockets == 2

\* number of units in the unit list pickEntity is applied to
MaxUnitsListed == 2

\* ------------------------------------------------------------------------
\* Values
\* ------------------------------------------------------------------------

\* JavaScript null for ids, owners, types
Null == "null"

Players == {"p1", "p2"}

\* the empty function (an empty unit or building list, an empty Map)
EmptyMap == [x \in {} |-> Null]

\* a unit and a building as the handlers read them from a snapshot
Unit(owner) == [owner |-> owner, type |-> "gi"]

Building(owner, type) == [owner |-> owner, type |-> type]

\* a `state` payload (message.state): units and buildings are keyed by
\* their id, resources carry no field the handlers use
Snapshot(size, units, buildings, resources) ==
    [ map_size |-> size, units |-> units, buildings |-> buildings,
      resources |-> resources ]

\* the snapshots the server may send, in any order and any number of times:
\* own, enemy and neutral units, units and buildings that appear, vanish and
\* change owner or type, and two map sizes
Snapshots ==
    { Snapshot(<<96, 64>>, EmptyMap, EmptyMap, {}),
      Snapshot(<<96, 64>>,
               [id \in {"u1", "u2"} |-> Unit("p1")],
               [id \in {"b1"} |-> Building("p1", "barracks")],
               {"r1"}),
      Snapshot(<<96, 64>>,
               [id \in {"u1", "u2"} |-> Unit(IF id = "u1" THEN "p2" ELSE "p1")],
               [id \in {"b1"} |-> Building("p1", "power_plant")],
               {"r1"}),
      Snapshot(<<96, 64>>,
               [id \in {"u2"} |-> Unit("p1")],
               [id \in {"b1"} |-> Building("p2", "barracks")],
               {}),
      Snapshot(<<48, 48>>,
               [id \in {"u1", "u2"} |-> Unit(IF id = "u1" THEN Null ELSE "p1")],
               EmptyMap,
               {"r1"}),
      Snapshot(<<48, 48>>,
               [id \in {"u1"} |-> Unit("p1")],
               [id \in {"b1"} |-> Building("p1", "barracks")],
               {}) }

\* a canvas point the pick ray may hit on the ground plane, <<>> for a miss
NoPoint == <<>>

RayHits == { NoPoint, <<50, 50>>, <<97, -3>> }

\* the userData of a picked mesh, and the null pick
NoPick == [id |-> Null, owner |-> Null, kind |-> Null, type |-> Null]

\* selectedBuilding = null
NoBuilding == [id |-> Null, type |-> Null]

\* a command object handed to sendCommand
Command(action, unitIds, target, position, building, unitType) ==
    [ action |-> action, unit_ids |-> unitIds, target_id |-> target,
      position |-> position, building_id |-> building, unit_type |-> unitType ]

\* the message taken off the wire by a socket: the join or a command
JoinMessage(s) == [sock |-> s, type |-> "join", command |-> Command(Null, {}, Null, NoPoint, Null, Null)]

CommandMessage(s, c) == [sock |-> s, type |-> "command", command |-> c]

\* ------------------------------------------------------------------------
\* State
\* ------------------------------------------------------------------------

VARIABLES
    sockets,          \* the WebSocket objects created so far, by creation order
    socket,           \* index of the module's `socket`, 0 for null
    statusLabel,      \* statusLabel.textContent
    playerId,
    gameState,        \* <<>> for null, <<snapshot>> otherwise
    mapSize,
    selectedUnits,
    selectedBuilding,
    unitMeshes,       \* id -> userData of the mesh
    buildingMeshes,
    resourceMeshes,
    buttons,          \* unit types with a button in productionButtonsContainer
    lastEvent,        \* the handler that ran in the last turn, with its inputs
    issued,           \* commands handed to sendCommand in the last turn
    sent,             \* messages given to a socket's send in the last turn
    created,          \* <<kind, id>> of the meshes created in the last turn
    disposed,         \* <<kind, id>> of the meshes disposed in the last turn
    staleSel,         \* ids selected when a connect click replaced a socket
                      \* and selected ever since
    pickPc,           \* "idle", or the position of a picking call
    pickInput,        \* the arguments and the world of the picking call
    pickResult,       \* what the picking call returned
    mapPoint,         \* what the call of a coordinate mapper returned
    match,            \* the matchmaking canvas client: its module state
    chrono            \* the ChronoFront canvas client: its module state

mainVars == << sockets, socket, statusLabel, playerId, gameState, mapSize,
               selectedUnits, selectedBuilding, unitMeshes, buildingMeshes,
               resourceMeshes, buttons, lastEvent, issued, sent, created,
               disposed, staleSel >>

pickVars == << pickPc, pickInput, pickResult, mapPoint >>

clientVars == << match, chrono >>

vars == << mainVars, pickVars, clientVars >>

\* selBefore: the ids selected when the handler started; repeat: a `state`
\* message carried the snapshot already held in gameState; lacks: the list a
\* `state` payload came without
Event(kind) == [kind |-> kind, sock |-> 0, picked |-> NoPick,
                additive |-> FALSE, ground |-> NoPoint, unit |-> Null,
                selBefore |-> {}, repeat |-> FALSE, lacks |-> Null]

\* ------------------------------------------------------------------------
\* Pure helpers of main.js
\* ------------------------------------------------------------------------

PRODUCTION_OPTIONS ==
    [ construction_yard |-> {"engineer"},
      ore_refinery |-> {"ore_miner"},
      barracks |-> {"conscript", "gi", "engineer", "rocketeer"},
      war_factory |-> {"grizzly_tank", "ifv", "mirage_tank", "prism_tank"},
      airforce_command |-> {"rocketeer"},
      power_plant |-> {},
      prism_tower |-> {} ]

\* renderProductionButtons that offers the barracks list for every building
renderProductionButtonsAsBarracks(buildingType) ==
    IF buildingType = Null THEN {}
    ELSE PRODUCTION_OPTIONS.barracks

\* the unit types renderProductionButtons leaves a button for
renderProductionButtons(buildingType) ==
    IF buildingType = Null THEN {}
    ELSE IF buildingType \in DOMAIN PRODUCTION_OPTIONS
         THEN PRODUCTION_OPTIONS[buildingType]
         ELSE {}

clamp(v, lo, hi) == IF v < lo THEN lo ELSE IF v > hi THEN hi ELSE v

\* getGroundPoint without the clamp
getGroundPointUnclamped(hit, size) == hit

\* getGroundPoint: hit is the ray's intersection with the ground mesh
getGroundPoint(hit, size) ==
    IF hit = NoPoint THEN NoPoint
    ELSE << clamp(hit[1], 0, size[1]), clamp(hit[2], 0, size[2]) >>

\* getMapPoint of the isometric client: hit is where the ray meets the ground
\* plane, in world coordinates (the map is centred on the origin); a point
\* outside the map is rejected
getMapPoint(hit, size) ==
    IF hit = NoPoint THEN NoPoint
    ELSE LET mapX == hit[1] + size[1] \div 2
             mapY == hit[2] + size[2] \div 2
         IN IF mapX < 0 \/ mapY < 0 \/ mapX > size[1] \/ mapY > size[2]
            THEN NoPoint
            ELSE << mapX, mapY >>

createUnitMesh(id, unit) ==
    [id |-> id, owner |-> unit.owner, kind |-> "unit", type |-> unit.type]

updateUnitMesh(mesh, unit) ==
    [mesh EXCEPT !.owner = unit.owner, !.type = unit.type]

createBuildingMesh(id, building) ==
    [id |-> id, owner |-> building.owner, kind |-> "building", type |-> building.type]

updateBuildingMesh(mesh, building) ==
    [mesh EXCEPT !.owner = building.owner, !.type = building.type]

createResourceMesh(id) ==
    [id |-> id, owner |-> Null, kind |-> "resource", type |-> Null]

\* updateUnits without its second loop: stale meshes are never swept
updateUnitsNoSweep(meshes, units) ==
    [id \in DOMAIN meshes \cup DOMAIN units |->
        IF id \in DOMAIN units
        THEN updateUnitMesh(IF id \in DOMAIN meshes THEN meshes[id]
                            ELSE createUnitMesh(id, units[id]),
                            units[id])
        ELSE meshes[id]]

\* updateUnits: upsert a mesh per unit of the snapshot, then sweep the
\* meshes whose id was not seen
updateUnits(meshes, units) ==
    LET seen == DOMAIN units
        upserted == [id \in DOMAIN meshes \cup seen |->
                        IF id \in seen
                        THEN updateUnitMesh(IF id \in DOMAIN meshes THEN meshes[id]
                                            ELSE createUnitMesh(id, units[id]),
                                            units[id])
                        ELSE meshes[id]]
    IN [id \in {i \in DOMAIN upserted : i \in seen} |-> upserted[id]]

updateBuildings(meshes, buildings) ==
    LET seen == DOMAIN buildings
        upserted == [id \in DOMAIN meshes \cup seen |->
                        IF id \in seen
                        THEN updateBuildingMesh(IF id \in DOMAIN meshes THEN meshes[id]
                                                ELSE createBuildingMesh(id, buildings[id]),
                                                buildings[id])
                        ELSE meshes[id]]
    IN [id \in {i \in DOMAIN upserted : i \in seen} |-> upserted[id]]

updateResources(meshes, resources) ==
    LET seen == resources
        upserted == [id \in DOMAIN meshes \cup seen |->
                        IF id \in DOMAIN meshes THEN meshes[id]
                        ELSE createResourceMesh(id)]
    IN [id \in {i \in DOMAIN upserted : i \in seen} |-> upserted[id]]

\* a sync pass that builds a new mesh for every entity of the snapshot
createdByAlways(kind, meshes, seen) == { <<kind, id>> : id \in seen }

\* the meshes a sync pass creates (createXMesh + scene.add) and disposes
createdBy(kind, meshes, seen) == { <<kind, id>> : id \in seen \ DOMAIN meshes }

disposedBy(kind, before, after) == { <<kind, id>> : id \in DOMAIN before \ DOMAIN after }

\* pickEntityAtEvent: null when nothing is pickable or the ray hits no mesh,
\* otherwise a copy of the userData of the first mesh along the ray
Pickables ==
    { unitMeshes[id] : id \in DOMAIN unitMeshes }
    \cup { buildingMeshes[id] : id \in DOMAIN buildingMeshes }
    \cup { resourceMeshes[id] : id \in DOMAIN resourceMeshes }

PickResults == {NoPick} \cup Pickables

\* handleSelection without the reset of a non-additive click
handleSelectionNeverClears(picked, additive, units, building, pid) ==
    IF picked = NoPick THEN [units |-> units, building |-> building]
    ELSE IF picked.owner = pid /\ picked.kind = "unit"
    THEN [units |-> IF picked.id \in units THEN units \ {picked.id}
                    ELSE units \cup {picked.id},
          building |-> building]
    ELSE IF picked.owner = pid /\ picked.kind = "building"
    THEN [units |-> units,
          building |-> IF building # NoBuilding /\ building.id = picked.id /\ additive
                       THEN NoBuilding
                       ELSE [id |-> picked.id, type |-> picked.type]]
    ELSE IF ~additive THEN [units |-> {}, building |-> NoBuilding]
    ELSE [units |-> units, building |-> building]

\* handleSelection that never removes a unit that is already selected
handleSelectionAddsOnly(picked, additive, units, building, pid) ==
    LET u0 == IF additive THEN units ELSE {}
        b0 == IF additive THEN building ELSE NoBuilding
    IN  IF picked = NoPick THEN [units |-> u0, building |-> b0]
        ELSE IF picked.owner = pid /\ picked.kind = "unit"
        THEN [units |-> u0 \cup {picked.id}, building |-> b0]
        ELSE IF picked.owner = pid /\ picked.kind = "building"
        THEN [units |-> u0,
              building |-> IF b0 # NoBuilding /\ b0.id = picked.id /\ additive
                           THEN NoBuilding
                           ELSE [id |-> picked.id, type |-> picked.type]]
        ELSE IF ~additive THEN [units |-> {}, building |-> NoBuilding]
        ELSE [units |-> u0, building |-> b0]

\* handleSelection, as the pair it leaves in selectedUnits / selectedBuilding
handleSelection(picked, additive, units, building, pid) ==
    LET u0 == IF additive THEN units ELSE {}
        b0 == IF additive THEN building ELSE NoBuilding
    IN  IF picked = NoPick THEN [units |-> u0, building |-> b0]
        ELSE IF picked.owner = pid /\ picked.kind = "unit"
        THEN [units |-> IF picked.id \in u0 THEN u0 \ {picked.id}
                        ELSE u0 \cup {picked.id},
              building |-> b0]
        ELSE IF picked.owner = pid /\ picked.kind = "building"
        THEN [units |-> u0,
              building |-> IF b0 # NoBuilding /\ b0.id = picked.id /\ additive
                           THEN NoBuilding
                           ELSE [id |-> picked.id, type |-> picked.type]]
        ELSE IF ~additive THEN [units |-> {}, building |-> NoBuilding]
        ELSE [units |-> u0, building |-> b0]

\* handleCommand without the `target.owner &&` test: neutral targets are attacked
handleCommandAttacksNeutral(target, groundPoint, units, pid) ==
    IF units = {} THEN <<>>
    ELSE IF target # NoPick /\ target.kind = "resource"
    THEN << Command("harvest", units, target.id, NoPoint, Null, Null) >>
    ELSE IF target # NoPick /\ target.owner # pid
    THEN << Command("attack", units, target.id, NoPoint, Null, Null) >>
    ELSE IF groundPoint # NoPoint
    THEN << Command("move", units, Null, groundPoint, Null, Null) >>
    ELSE <<>>

\* handleCommand with the coordinates of the move position exchanged
handleCommandSwapsAxes(target, groundPoint, units, pid) ==
    IF units = {} THEN <<>>
    ELSE IF target # NoPick /\ target.kind = "resource"
    THEN << Command("harvest", units, target.id, NoPoint, Null, Null) >>
    ELSE IF target # NoPick /\ target.owner # Null /\ target.owner # pid
    THEN << Command("attack", units, target.id, NoPoint, Null, Null) >>
    ELSE IF groundPoint # NoPoint
    THEN << Command("move", units, Null, << groundPoint[2], groundPoint[1] >>,
                    Null, Null) >>
    ELSE <<>>

\* handleCommand without the early return on an empty selection
handleCommandWithoutSelectionTest(target, groundPoint, units, pid) ==
    IF target # NoPick /\ target.kind = "resource"
    THEN << Command("harvest", units, target.id, NoPoint, Null, Null) >>
    ELSE IF target # NoPick /\ target.owner # Null /\ target.owner # pid
    THEN << Command("attack", units, target.id, NoPoint, Null, Null) >>
    ELSE IF groundPoint # NoPoint
    THEN << Command("move", units, Null, groundPoint, Null, Null) >>
    ELSE <<>>

\* handleCommand that issues nothing for a target without an owner
handleCommandIgnoresNeutral(target, groundPoint, units, pid) ==
    IF units = {} THEN <<>>
    ELSE IF target # NoPick /\ target.kind = "resource"
    THEN << Command("harvest", units, target.id, NoPoint, Null, Null) >>
    ELSE IF target # NoPick /\ target.owner # Null /\ target.owner # pid
    THEN << Command("attack", units, target.id, NoPoint, Null, Null) >>
    ELSE IF target # NoPick /\ target.owner = Null THEN <<>>
    ELSE IF groundPoint # NoPoint
    THEN << Command("move", units, Null, groundPoint, Null, Null) >>
    ELSE <<>>

\* handleCommand, as the sequence of commands it hands to sendCommand
handleCommand(target, groundPoint, units, pid) ==
    IF units = {} THEN <<>>
    ELSE IF target # NoPick /\ target.kind = "resource"
    THEN << Command("harvest", units, target.id, NoPoint, Null, Null) >>
    ELSE IF target # NoPick /\ target.owner # Null /\ target.owner # pid
    THEN << Command("attack", units, target.id, NoPoint, Null, Null) >>
    ELSE IF groundPoint # NoPoint
    THEN << Command("move", units, Null, groundPoint, Null, Null) >>
    ELSE <<>>

\* sendCommand without the readyState test
sendCommandUnguarded(commands, sock, socks) ==
    IF sock = 0 THEN <<>>
    ELSE [i \in 1..Len(commands) |-> CommandMessage(sock, commands[i])]

\* sendCommand: the messages that reach socket.send
sendCommand(commands, sock, socks) ==
    IF sock = 0 THEN <<>>
    ELSE IF socks[sock].readyState # "OPEN" THEN <<>>
    ELSE [i \in 1..Len(commands) |-> CommandMessage(sock, commands[i])]

\* ------------------------------------------------------------------------
\* Picking: pickEntity(x, y) of the canvas clients (threshold 2.5, building
\* half-size 4) and of the isometric client (threshold 3.2, half-size 6),
\* and pickEntityAtEvent of main.js.  Lengths are kept in tenths so that
\* Math.hypot(dx, dy) < t is exact on integer coordinates.
\* ------------------------------------------------------------------------

PickClients == {"canvas", "isometric"}

\* `threshold`, in tenths
threshold10(client) == IF client = "isometric" THEN 32 ELSE 25

\* `size` of the building test
buildingSize(client) == IF client = "isometric" THEN 6 ELSE 4

\* the resource test uses threshold + 1.5
resourceThreshold10(client) == threshold10(client) + 15

\* Math.hypot(px - x, py - y) < t10 / 10
hypotBelow(position, x, y, t10) ==
    LET dx == position[1] - x
        dy == position[2] - y
    IN 100 * (dx * dx + dy * dy) < t10 * t10

unitQualifies(client, unit, x, y) ==
    hypotBelow(unit.position, x, y, threshold10(client))

buildingQualifies(client, building, x, y) ==
    LET bx == building.position[1]
        by == building.position[2]
        size == buildingSize(client)
    IN x >= bx - size /\ x <= bx + size /\ y >= by - size /\ y <= by + size

resourceQualifies(client, resource, x, y) ==
    hypotBelow(resource.position, x, y, resourceThreshold10(client))

\* the index at which a `for ... of` loop returns, given the indices whose
\* entity passes the test, 0 if the loop runs out
firstIndex(passing) ==
    IF passing = {} THEN 0
    ELSE CHOOSE i \in passing : \A j \in passing : i <= j

\* the object a loop of pickEntity returns (its label is left out)
pickOf(entity, owner, kind) ==
    [id |-> entity.id, owner |-> owner, kind |-> kind, type |-> Null]

\* pickEntity with the building loop ahead of the unit loop
pickEntityBuildingsFirst(client, state, x, y) ==
    IF state = <<>> THEN NoPick
    ELSE LET u == firstIndex({ i \in 1..Len(state[1].units) :
                                 unitQualifies(client, state[1].units[i], x, y) })
             b == firstIndex({ i \in 1..Len(state[1].buildings) :
                                 buildingQualifies(client, state[1].buildings[i], x, y) })
             r == firstIndex({ i \in 1..Len(state[1].resources) :
                                 resourceQualifies(client, state[1].resources[i], x, y) })
         IN IF b # 0 THEN pickOf(state[1].buildings[b], state[1].buildings[b].owner, "building")
            ELSE IF u # 0 THEN pickOf(state[1].units[u], state[1].units[u].owner, "unit")
            ELSE IF r # 0 THEN pickOf(state[1].resources[r], Null, "resource")
            ELSE NoPick

\* pickEntity(x, y): state is gameState, <<>> for null
pickEntity(client, state, x, y) ==
    IF state = <<>> THEN NoPick
    ELSE LET u == firstIndex({ i \in 1..Len(state[1].units) :
                                 unitQualifies(client, state[1].units[i], x, y) })
             b == firstIndex({ i \in 1..Len(state[1].buildings) :
                                 buildingQualifies(client, state[1].buildings[i], x, y) })
             r == firstIndex({ i \in 1..Len(state[1].resources) :
                                 resourceQualifies(client, state[1].resources[i], x, y) })
         IN IF u # 0 THEN pickOf(state[1].units[u], state[1].units[u].owner, "unit")
            ELSE IF b # 0 THEN pickOf(state[1].buildings[b], state[1].buildings[b].owner, "building")
            ELSE IF r # 0 THEN pickOf(state[1].resources[r], Null, "resource")
            ELSE NoPick

\* pickEntityAtEvent of main.js: pickables are the meshes of the three maps,
\* intersections what raycaster.intersectObjects returns, nearest hit first
pickEntityAtEvent(pickables, intersections) ==
    IF pickables = {} THEN NoPick
    ELSE IF Len(intersections) = 0 THEN NoPick
    ELSE intersections[1]

\* the worlds and pointers the picking functions are applied to
UnitPositions == { <<0, 0>>, <<2, 0>> }

PointerXs == {0, 2, 4, 12}

ListedUnits ==
    UNION { { [i \in 1..n |-> [id |-> i, owner |-> "p1", position |-> f[i]]] :
                f \in [1..n -> UnitPositions] } : n \in 0..MaxUnitsListed }

ListedBuildings ==
    { <<>>, << [id |-> "b1", owner |-> "p2", position |-> <<6, 0>>] >> }

ListedResources == { <<>>, << [id |-> "r1", position |-> <<6, 0>>] >> }

PickStates ==
    { <<>> } \cup
    { << [units |-> u, buildings |-> b, resources |-> r] >> :
        u \in ListedUnits, b \in ListedBuildings, r \in ListedResources }

RayMeshes ==
    { createUnitMesh("u1", Unit("p1")),
      createBuildingMesh("b1", Building("p2", "barracks")),
      createResourceMesh("r1") }

\* the meshes a ray goes through, nearest first
Rays ==
    { q \in UNION { [1..n -> RayMeshes] : n \in 0..3 } :
        \A i, j \in 1..Len(q) : i # j => q[i] # q[j] }

\* where the ray of a coordinate mapper meets the ground (the isometric
\* client's plane is unbounded and centred on the origin), and the map sizes
PlaneHits == { NoPoint } \cup { << x, y >> : x \in {-49, 0, 48, 97}, y \in {-33, 0, 32} }

MapSizes == { s.map_size : s \in Snapshots }

NoPickInput ==
    [client |-> Null, state |-> <<>>, x |-> 0, y |-> 0,
     pickables |-> {}, intersections |-> <<>>,
     hit |-> NoPoint, size |-> <<96, 64>>]

\* ------------------------------------------------------------------------
\* The two canvas clients of src/unnamed/part_003: values
\* ------------------------------------------------------------------------

\* number of WebSocket objects connect() of the matchmaking client may create
MaxJoins == 2

\* a unit of the matchmaking client's state (player.units) on the line y = 0
MatchUnit(id, x) == [id |-> id, x |-> x, y |-> 0]

\* data.state of the matchmaking client: players keyed by id, and the winner
MatchState(units1, units2, winner) ==
    [ players |-> [p \in Players |->
                      [id |-> p, base |-> TRUE,
                       units |-> IF p = "p1" THEN units1 ELSE units2]],
      winner |-> winner ]

MatchStates ==
    { MatchState(<< MatchUnit("u1", 0) >>, << MatchUnit("u2", 4) >>, Null),
      MatchState(<< MatchUnit("u1", 0), MatchUnit("u3", 1) >>, << >>, Null),
      MatchState(<< >>, << MatchUnit("u2", 4) >>, "p2") }

\* the world x of a pointer event of the matchmaking client (canvasToWorld)
MatchPointers == {0, 4, 8}

\* a message given to websocket.send
MatchMessage(sock, action, unit, target, position) ==
    [sock |-> sock, action |-> action, unit |-> unit, target |-> target,
     position |-> position]

\* the matchmaking client after its script has run: no socket yet (status
\* holds the text of the page's markup, which the handlers never read;
\* selectionSocket is the value `websocket` had when selection was assigned)
MatchLoaded ==
    [ sockets |-> << >>, websocket |-> 0, playerId |-> Null, lastState |-> << >>,
      selection |-> Null, joinDisabled |-> FALSE, status |-> "Offline",
      animationHandle |-> FALSE, event |-> "load", sent |-> << >>,
      selectionSocket |-> 0 ]

\* a unit of the ChronoFront client's payload
ChronoUnit(id, owner, x) ==
    [id |-> id, owner_id |-> owner, position |-> << x, 0 >>]

\* data.payload of the ChronoFront client
ChronoPayloads ==
    { [units |-> << ChronoUnit("u1", "p1", 0), ChronoUnit("u2", "p1", 2),
                    ChronoUnit("u3", "p2", 10) >>],
      [units |-> << ChronoUnit("u2", "p1", 2), ChronoUnit("u3", "p2", 10) >>],
      [units |-> << >>] }

\* the world x of a pointer event of the ChronoFront client
\* (worldPositionFromEvent)
ChronoPointers == {0, 1, 10, 20}

\* the unit types of the production buttons (button.dataset.unit)
ChronoUnitTypes == {"infantry", "tank"}

\* a message given to socket.send by sendAction
ChronoMessage(type, unitIds, target, unitType) ==
    [type |-> type, unit_ids |-> unitIds, target |-> target, unit_type |-> unitType]

\* the ChronoFront client after its script has run: connect() has been called
ChronoLoaded ==
    [ readyState |-> "CONNECTING", localPlayerId |-> Null, latestState |-> << >>,
      rallyMode |-> FALSE, selectedUnits |-> {}, event |-> "load", sent |-> << >> ]

\* ------------------------------------------------------------------------
\* Initial state: the module has been evaluated, no socket exists
\* (statusLabel starts with the text of the page's markup, which the handlers
\* never read)
\* ------------------------------------------------------------------------

MainInit ==
    /\ sockets = <<>>
    /\ socket = 0
    /\ statusLabel = "Disconnected"
    /\ playerId = Null
    /\ gameState = <<>>
    /\ mapSize = <<96, 64>>
    /\ selectedUnits = {}
    /\ selectedBuilding = NoBuilding
    /\ unitMeshes = EmptyMap
    /\ buildingMeshes = EmptyMap
    /\ resourceMeshes = EmptyMap
    /\ buttons = renderProductionButtons(Null)
    /\ lastEvent = Event("init")
    /\ issued = <<>>
    /\ sent = <<>>
    /\ created = {}
    /\ disposed = {}
    /\ staleSel = {}

Init ==
    /\ MainInit
    /\ pickPc = "idle"
    /\ pickInput = NoPickInput
    /\ pickResult = NoPick
    /\ mapPoint = NoPoint
    /\ match = MatchLoaded
    /\ chrono = ChronoLoaded

\* ------------------------------------------------------------------------
\* Actions: one per event handler
\* ------------------------------------------------------------------------

SelectionIds(units, building) ==
    units \cup (IF building = NoBuilding THEN {} ELSE {building.id})

\* nothing is sent, created or disposed in this turn
NoEffects ==
    /\ issued' = <<>>
    /\ sent' = <<>>
    /\ created' = {}
    /\ disposed' = {}

\* a close() that leaves the socket open until its close event
closeSocketKeepsOpen(sock) == sock

\* WebSocket.close(): a socket that is connecting or open starts closing
closeSocket(sock) ==
    IF sock.readyState \in {"CONNECTING", "OPEN"}
    THEN [sock EXCEPT !.readyState = "CLOSING"]
    ELSE sock

\* connectBtn click: close the previous socket if any, then openSocket
ConnectClick ==
    /\ Len(sockets) < MaxSockets
    /\ LET closed == IF socket # 0
                     THEN [sockets EXCEPT ![socket] = closeSocket(sockets[socket])]
                     ELSE sockets
       IN sockets' = Append(closed, [readyState |-> "CONNECTING", joins |-> 0,
                                     welcomed |-> FALSE])
    /\ socket' = Len(sockets) + 1
    /\ statusLabel' = "Connecting"
    /\ staleSel' = IF socket # 0 /\ sockets[socket].readyState # "CLOSED"
                   THEN SelectionIds(selectedUnits, selectedBuilding)
                   ELSE staleSel
    /\ lastEvent' = Event("connect")
    /\ NoEffects
    /\ UNCHANGED << pickVars, clientVars >>
    /\ UNCHANGED << playerId, gameState, mapSize, selectedUnits, selectedBuilding,
                    unitMeshes, buildingMeshes, resourceMeshes, buttons >>

\* an open handler that sets the status and sends no join
SocketOpenWithoutJoin(s) ==
    /\ sockets[s].readyState = "CONNECTING"
    /\ sockets' = [sockets EXCEPT ![s].readyState = "OPEN"]
    /\ sent' = <<>>
    /\ statusLabel' = "Connected"
    /\ lastEvent' = [Event("open") EXCEPT !.sock = s]
    /\ issued' = <<>>
    /\ created' = {}
    /\ disposed' = {}
    /\ UNCHANGED << pickVars, clientVars >>
    /\ UNCHANGED << socket, playerId, gameState, mapSize, selectedUnits,
                    selectedBuilding, unitMeshes, buildingMeshes, resourceMeshes,
                    buttons, staleSel >>

\* the open event of socket s: the handler sends the join on the module's
\* `socket`
SocketOpen(s) ==
    /\ sockets[s].readyState = "CONNECTING"
    /\ LET opened == [sockets EXCEPT ![s].readyState = "OPEN"]
           canSend == socket # 0 /\ opened[socket].readyState = "OPEN"
       IN /\ sockets' = IF canSend
                        THEN [opened EXCEPT ![socket].joins = @ + 1]
                        ELSE opened
          /\ sent' = IF canSend THEN << JoinMessage(socket) >> ELSE <<>>
    /\ statusLabel' = "Connected"
    /\ lastEvent' = [Event("open") EXCEPT !.sock = s]
    /\ issued' = <<>>
    /\ created' = {}
    /\ disposed' = {}
    /\ UNCHANGED << pickVars, clientVars >>
    /\ UNCHANGED << socket, playerId, gameState, mapSize, selectedUnits,
                    selectedBuilding, unitMeshes, buildingMeshes, resourceMeshes,
                    buttons, staleSel >>

\* a `welcome` message on socket s; the server answers each join once
WelcomeMessage(s, pid) ==
    /\ sockets[s].readyState = "OPEN"
    /\ sockets[s].joins > 0
    /\ ~sockets[s].welcomed
    /\ sockets' = [sockets EXCEPT ![s].welcomed = TRUE]
    /\ playerId' = pid
    /\ lastEvent' = [Event("welcome") EXCEPT !.sock = s]
    /\ NoEffects
    /\ UNCHANGED << pickVars, clientVars >>
    /\ UNCHANGED << socket, statusLabel, gameState, mapSize, selectedUnits,
                    selectedBuilding, unitMeshes, buildingMeshes, resourceMeshes,
                    buttons, staleSel >>

\* a `state` branch that leaves selectedUnits alone
pruneUnitsKeepsAll(units, snapshot) == units

\* the selection pruning of the `state` branch
pruneUnits(units, snapshot) == {id \in units : id \in DOMAIN snapshot.units}

\* a `state` branch that keeps a selected building the snapshot lacks
pruneBuildingKeepsMissing(building, snapshot) ==
    IF building = NoBuilding THEN NoBuilding
    ELSE IF building.id \notin DOMAIN snapshot.buildings THEN building
    ELSE [building EXCEPT !.type = snapshot.buildings[building.id].type]

pruneBuilding(building, snapshot) ==
    IF building = NoBuilding THEN NoBuilding
    ELSE IF building.id \notin DOMAIN snapshot.buildings THEN NoBuilding
    ELSE [building EXCEPT !.type = snapshot.buildings[building.id].type]

\* a `state` branch that never re-renders the production buttons
buttonsAfterStateStale(building, pruned, current) == current

\* the buttons left by the `state` branch, which renders only when a
\* building was selected
buttonsAfterState(building, pruned, current) ==
    IF building = NoBuilding THEN current
    ELSE renderProductionButtons(pruned.type)

\* a `state` message on socket s: store the snapshot, prune the selection,
\* syncScene
StateMessage(s, snapshot) ==
    /\ sockets[s].readyState = "OPEN"
    /\ mapSize' = snapshot.map_size
    /\ gameState' = << snapshot >>
    /\ selectedUnits' = pruneUnits(selectedUnits, snapshot)
    /\ selectedBuilding' = pruneBuilding(selectedBuilding, snapshot)
    /\ buttons' = buttonsAfterState(selectedBuilding, selectedBuilding', buttons)
    /\ unitMeshes' = updateUnits(unitMeshes, snapshot.units)
    /\ buildingMeshes' = updateBuildings(buildingMeshes, snapshot.buildings)
    /\ resourceMeshes' = updateResources(resourceMeshes, snapshot.resources)
    /\ created' = createdBy("unit", unitMeshes, DOMAIN snapshot.units)
                  \cup createdBy("building", buildingMeshes, DOMAIN snapshot.buildings)
                  \cup createdBy("resource", resourceMeshes, snapshot.resources)
    /\ disposed' = disposedBy("unit", unitMeshes, unitMeshes')
                   \cup disposedBy("building", buildingMeshes, buildingMeshes')
                   \cup disposedBy("resource", resourceMeshes, resourceMeshes')
    /\ staleSel' = staleSel \cap SelectionIds(selectedUnits', selectedBuilding')
    /\ lastEvent' = [Event("state") EXCEPT
                        !.sock = s,
                        !.selBefore = SelectionIds(selectedUnits, selectedBuilding),
                        !.repeat = (gameState = << snapshot >>)]
    /\ issued' = <<>>
    /\ sent' = <<>>
    /\ UNCHANGED << pickVars, clientVars >>
    /\ UNCHANGED << sockets, socket, statusLabel, playerId >>

\* an `event` message on socket s: only the event log changes
EventMessage(s) ==
    /\ sockets[s].readyState = "OPEN"
    /\ lastEvent' = [Event("event") EXCEPT !.sock = s]
    /\ NoEffects
    /\ UNCHANGED << pickVars, clientVars >>
    /\ UNCHANGED << sockets, socket, statusLabel, playerId, gameState, mapSize,
                    selectedUnits, selectedBuilding, unitMeshes, buildingMeshes,
                    resourceMeshes, buttons, staleSel >>

\* a close handler that opens the next socket by itself
SocketCloseReconnects(s) ==
    /\ sockets[s].readyState # "CLOSED"
    /\ LET closed == [sockets EXCEPT ![s].readyState = "CLOSED"]
       IN IF Len(sockets) < MaxSockets
          THEN /\ sockets' = Append(closed, [readyState |-> "CONNECTING",
                                             joins |-> 0, welcomed |-> FALSE])
               /\ socket' = Len(sockets) + 1
               /\ statusLabel' = "Connecting"
          ELSE /\ sockets' = closed
               /\ socket' = socket
               /\ statusLabel' = "Disconnected"
    /\ playerId' = Null
    /\ selectedUnits' = {}
    /\ selectedBuilding' = NoBuilding
    /\ buttons' = renderProductionButtons(Null)
    /\ staleSel' = {}
    /\ lastEvent' = [Event("close") EXCEPT
                        !.sock = s,
                        !.selBefore = SelectionIds(selectedUnits, selectedBuilding)]
    /\ NoEffects
    /\ UNCHANGED << pickVars, clientVars >>
    /\ UNCHANGED << gameState, mapSize, unitMeshes, buildingMeshes,
                    resourceMeshes >>

\* a close handler that also empties the three mesh maps
SocketCloseClearsMirror(s) ==
    /\ sockets[s].readyState # "CLOSED"
    /\ sockets' = [sockets EXCEPT ![s].readyState = "CLOSED"]
    /\ statusLabel' = "Disconnected"
    /\ playerId' = Null
    /\ selectedUnits' = {}
    /\ selectedBuilding' = NoBuilding
    /\ buttons' = renderProductionButtons(Null)
    /\ staleSel' = {}
    /\ unitMeshes' = EmptyMap
    /\ buildingMeshes' = EmptyMap
    /\ resourceMeshes' = EmptyMap
    /\ lastEvent' = [Event("close") EXCEPT
                        !.sock = s,
                        !.selBefore = SelectionIds(selectedUnits, selectedBuilding)]
    /\ NoEffects
    /\ UNCHANGED << pickVars, clientVars >>
    /\ UNCHANGED << socket, gameState, mapSize >>

\* a close handler that resets the status and playerId only
SocketCloseKeepsSelection(s) ==
    /\ sockets[s].readyState # "CLOSED"
    /\ sockets' = [sockets EXCEPT ![s].readyState = "CLOSED"]
    /\ statusLabel' = "Disconnected"
    /\ playerId' = Null
    /\ lastEvent' = [Event("close") EXCEPT
                        !.sock = s,
                        !.selBefore = SelectionIds(selectedUnits, selectedBuilding)]
    /\ NoEffects
    /\ UNCHANGED << pickVars, clientVars >>
    /\ UNCHANGED << socket, gameState, mapSize, unitMeshes, buildingMeshes,
                    resourceMeshes, selectedUnits, selectedBuilding, buttons,
                    staleSel >>

\* the close event of socket s (a close() that completed, a close by the
\* server, or a failed connection)
SocketClose(s) ==
    /\ sockets[s].readyState # "CLOSED"
    /\ sockets' = [sockets EXCEPT ![s].readyState = "CLOSED"]
    /\ statusLabel' = "Disconnected"
    /\ playerId' = Null
    /\ selectedUnits' = {}
    /\ selectedBuilding' = NoBuilding
    /\ buttons' = renderProductionButtons(Null)
    /\ staleSel' = {}
    /\ lastEvent' = [Event("close") EXCEPT
                        !.sock = s,
                        !.selBefore = SelectionIds(selectedUnits, selectedBuilding)]
    /\ NoEffects
    /\ UNCHANGED << pickVars, clientVars >>
    /\ UNCHANGED << socket, gameState, mapSize, unitMeshes, buildingMeshes,
                    resourceMeshes >>

\* a mousedown handler without the `if (!gameState) return`
SelectClickWithoutStateTest(picked, additive) ==
    /\ picked \in PickResults
    /\ LET r == handleSelection(picked, additive, selectedUnits,
                                selectedBuilding, playerId)
       IN /\ selectedUnits' = r.units
          /\ selectedBuilding' = r.building
          /\ buttons' = renderProductionButtons(r.building.type)
          /\ staleSel' = staleSel \cap SelectionIds(r.units, r.building)
    /\ lastEvent' = [Event("select") EXCEPT
                        !.picked = picked,
                        !.additive = additive,
                        !.selBefore = SelectionIds(selectedUnits, selectedBuilding)]
    /\ NoEffects
    /\ UNCHANGED << pickVars, clientVars >>
    /\ UNCHANGED << sockets, socket, statusLabel, playerId, gameState, mapSize,
                    unitMeshes, buildingMeshes, resourceMeshes >>

\* canvas mousedown with button 0: handleSelection
SelectClick(picked, additive) ==
    /\ gameState # <<>>
    /\ picked \in PickResults
    /\ LET r == handleSelection(picked, additive, selectedUnits,
                                selectedBuilding, playerId)
       IN /\ selectedUnits' = r.units
          /\ selectedBuilding' = r.building
          /\ buttons' = renderProductionButtons(r.building.type)
          /\ staleSel' = staleSel \cap SelectionIds(r.units, r.building)
    /\ lastEvent' = [Event("select") EXCEPT
                        !.picked = picked,
                        !.additive = additive,
                        !.selBefore = SelectionIds(selectedUnits, selectedBuilding)]
    /\ NoEffects
    /\ UNCHANGED << pickVars, clientVars >>
    /\ UNCHANGED << sockets, socket, statusLabel, playerId, gameState, mapSize,
                    unitMeshes, buildingMeshes, resourceMeshes >>

\* canvas mousedown with button 2: getGroundPoint, handleCommand
CommandClick(picked, hit) ==
    /\ gameState # <<>>
    /\ picked \in PickResults
    /\ LET groundPoint == getGroundPoint(hit, mapSize)
           commands == handleCommand(picked, groundPoint, selectedUnits, playerId)
       IN /\ issued' = commands
          /\ sent' = sendCommand(commands, socket, sockets)
          /\ lastEvent' = [Event("command") EXCEPT
                              !.picked = picked,
                              !.ground = groundPoint,
                              !.selBefore = SelectionIds(selectedUnits, selectedBuilding)]
    /\ created' = {}
    /\ disposed' = {}
    /\ UNCHANGED << pickVars, clientVars >>
    /\ UNCHANGED << sockets, socket, statusLabel, playerId, gameState, mapSize,
                    selectedUnits, selectedBuilding, unitMeshes, buildingMeshes,
                    resourceMeshes, buttons, staleSel >>

\* the click handler of a production button, as the commands it hands to
\* sendCommand
productionClick(unit, building, sock, socks) ==
    IF sock = 0 \/ socks[sock].readyState # "OPEN" THEN <<>>
    ELSE IF building = NoBuilding THEN <<>>
    ELSE << Command("build_unit", {}, Null, NoPoint, building.id, unit) >>

\* a click on the rendered production button of a unit type
ProductionClick(unit) ==
    /\ unit \in buttons
    /\ LET commands == productionClick(unit, selectedBuilding, socket, sockets)
       IN /\ issued' = commands
          /\ sent' = sendCommand(commands, socket, sockets)
    /\ lastEvent' = [Event("produce") EXCEPT
                        !.unit = unit,
                        !.selBefore = SelectionIds(selectedUnits, selectedBuilding)]
    /\ created' = {}
    /\ disposed' = {}
    /\ UNCHANGED << pickVars, clientVars >>
    /\ UNCHANGED << sockets, socket, statusLabel, playerId, gameState, mapSize,
                    selectedUnits, selectedBuilding, unitMeshes, buildingMeshes,
                    resourceMeshes, buttons, staleSel >>

UnitTypes == UNION { PRODUCTION_OPTIONS[t] : t \in DOMAIN PRODUCTION_OPTIONS }

\* a render tick: animate resizes, runs updateSelectionHighlights, which sets
\* the emissive colour of each mesh from the selection, and renders; it reads
\* the mesh maps and the selection and assigns none of the module's state
Animate ==
    /\ lastEvent' = Event("animate")
    /\ NoEffects
    /\ UNCHANGED << pickVars, clientVars >>
    /\ UNCHANGED << sockets, socket, statusLabel, playerId, gameState, mapSize,
                    selectedUnits, selectedBuilding, unitMeshes, buildingMeshes,
                    resourceMeshes, buttons, staleSel >>

Next ==
    \/ ConnectClick
    \/ \E s \in 1..Len(sockets) : SocketOpen(s)
    \/ \E s \in 1..Len(sockets), pid \in Players : WelcomeMessage(s, pid)
    \/ \E s \in 1..Len(sockets), snapshot \in Snapshots : StateMessage(s, snapshot)
    \/ \E s \in 1..Len(sockets) : EventMessage(s)
    \/ \E s \in 1..Len(sockets) : SocketClose(s)
    \/ \E picked \in PickResults, additive \in BOOLEAN : SelectClick(picked, additive)
    \/ \E picked \in PickResults, hit \in RayHits : CommandClick(picked, hit)
    \/ \E unit \in UnitTypes : ProductionClick(unit)
    \/ Animate

Spec == Init /\ [][Next]_vars

\* ------------------------------------------------------------------------
\* Inbound messages the message handler has no branch for, or cannot finish:
\* a connected and welcomed client receives well-formed snapshots, clicks,
\* and messages of an unknown type or `state` payloads that lack a list
\* ------------------------------------------------------------------------

\* the lists the `state` branch iterates
RequiredLists == {"units", "buildings", "resources"}

\* message.state without one of its lists (the property is undefined)
Lacking(snapshot, list) == [f \in (DOMAIN snapshot) \ {list} |-> snapshot[f]]

\* a message whose type is none of welcome / state / event: no branch of the
\* handler runs
UnexpectedMessage(s) ==
    /\ sockets[s].readyState = "OPEN"
    /\ lastEvent' = [Event("unexpected") EXCEPT !.sock = s]
    /\ NoEffects
    /\ UNCHANGED << pickVars, clientVars >>
    /\ UNCHANGED << sockets, socket, statusLabel, playerId, gameState, mapSize,
                    selectedUnits, selectedBuilding, unitMeshes, buildingMeshes,
                    resourceMeshes, buttons, staleSel >>

\* a `state` message whose payload lacks `list`: the branch runs until the
\* first use of the missing list raises a TypeError, which ends the handler.
\* mapSize and gameState are assigned first; gameState.units.map is next;
\* gameState.buildings.find is reached only when a building is selected;
\* syncScene runs updateUnits, updateBuildings, updateResources in that order
MalformedStateMessage(s, snapshot, list) ==
    /\ sockets[s].readyState = "OPEN"
    /\ LET prunesUnits == list # "units"
           prunesBuilding == list = "resources"
           syncsUnits == \/ list = "resources"
                         \/ list = "buildings" /\ selectedBuilding = NoBuilding
           syncsBuildings == list = "resources"
       IN /\ mapSize' = snapshot.map_size
          /\ gameState' = << Lacking(snapshot, list) >>
          /\ selectedUnits' = IF prunesUnits THEN pruneUnits(selectedUnits, snapshot)
                              ELSE selectedUnits
          /\ selectedBuilding' = IF prunesBuilding
                                 THEN pruneBuilding(selectedBuilding, snapshot)
                                 ELSE selectedBuilding
          /\ buttons' = IF prunesBuilding
                        THEN buttonsAfterState(selectedBuilding, selectedBuilding', buttons)
                        ELSE buttons
          /\ unitMeshes' = IF syncsUnits THEN updateUnits(unitMeshes, snapshot.units)
                           ELSE unitMeshes
          /\ buildingMeshes' = IF syncsBuildings
                               THEN updateBuildings(buildingMeshes, snapshot.buildings)
                               ELSE buildingMeshes
          /\ resourceMeshes' = resourceMeshes
          /\ created' = (IF syncsUnits
                         THEN createdBy("unit", unitMeshes, DOMAIN snapshot.units)
                         ELSE {})
                        \cup (IF syncsBuildings
                              THEN createdBy("building", buildingMeshes,
                                             DOMAIN snapshot.buildings)
                              ELSE {})
    /\ disposed' = disposedBy("unit", unitMeshes, unitMeshes')
                   \cup disposedBy("building", buildingMeshes, buildingMeshes')
    /\ staleSel' = staleSel \cap SelectionIds(selectedUnits', selectedBuilding')
    /\ lastEvent' = [Event("malformed") EXCEPT
                        !.sock = s,
                        !.selBefore = SelectionIds(selectedUnits, selectedBuilding),
                        !.lacks = list]
    /\ issued' = <<>>
    /\ sent' = <<>>
    /\ UNCHANGED << pickVars, clientVars >>
    /\ UNCHANGED << sockets, socket, statusLabel, playerId >>

\* the state after a connect click, the open event and the welcome of p1
ConnectedInit ==
    /\ sockets = << [readyState |-> "OPEN", joins |-> 1, welcomed |-> TRUE] >>
    /\ socket = 1
    /\ statusLabel = "Connected"
    /\ playerId = "p1"
    /\ gameState = <<>>
    /\ mapSize = <<96, 64>>
    /\ selectedUnits = {}
    /\ selectedBuilding = NoBuilding
    /\ unitMeshes = EmptyMap
    /\ buildingMeshes = EmptyMap
    /\ resourceMeshes = EmptyMap
    /\ buttons = renderProductionButtons(Null)
    /\ lastEvent = [Event("welcome") EXCEPT !.sock = 1]
    /\ issued = <<>>
    /\ sent = <<>>
    /\ created = {}
    /\ disposed = {}
    /\ staleSel = {}
    /\ pickPc = "idle"
    /\ pickInput = NoPickInput
    /\ pickResult = NoPick
    /\ mapPoint = NoPoint
    /\ match = MatchLoaded
    /\ chrono = ChronoLoaded

MalformedNext ==
    \/ \E s \in 1..Len(sockets), snapshot \in Snapshots : StateMessage(s, snapshot)
    \/ \E picked \in PickResults, additive \in BOOLEAN : SelectClick(picked, additive)
    \/ \E s \in 1..Len(sockets) : UnexpectedMessage(s)
    \/ \E s \in 1..Len(sockets), snapshot \in Snapshots, list \in RequiredLists :
          MalformedStateMessage(s, snapshot, list)

MalformedSpec == ConnectedInit /\ [][MalformedNext]_vars

\* ------------------------------------------------------------------------
\* The picking functions applied to every bounded world and pointer
\* ------------------------------------------------------------------------

PickInit ==
    /\ MainInit
    /\ pickResult = NoPick
    /\ mapPoint = NoPoint
    /\ match = MatchLoaded
    /\ chrono = ChronoLoaded
    /\ \/ /\ pickPc = "call2d"
          /\ \E client \in PickClients, state \in PickStates, x \in PointerXs :
                pickInput = [NoPickInput EXCEPT !.client = client,
                                                !.state = state, !.x = x]
       \/ /\ pickPc = "callRay"
          /\ \E ray \in Rays :
                pickInput = [NoPickInput EXCEPT !.pickables = RayMeshes,
                                                !.intersections = ray]
       \/ /\ pickPc \in {"callMap", "callGround"}
          /\ \E hit \in PlaneHits, size \in MapSizes :
                pickInput = [NoPickInput EXCEPT !.hit = hit, !.size = size]

\* a call of pickEntity(x, y)
PickEntityCall ==
    /\ pickPc = "call2d"
    /\ pickResult' = pickEntity(pickInput.client, pickInput.state,
                                pickInput.x, pickInput.y)
    /\ pickPc' = "done2d"
    /\ UNCHANGED << mainVars, clientVars, pickInput, mapPoint >>

\* a call of pickEntityAtEvent(event)
PickAtEventCall ==
    /\ pickPc = "callRay"
    /\ pickResult' = pickEntityAtEvent(pickInput.pickables, pickInput.intersections)
    /\ pickPc' = "doneRay"
    /\ UNCHANGED << mainVars, clientVars, pickInput, mapPoint >>

\* a call of getMapPoint(event) of the isometric client
GetMapPointCall ==
    /\ pickPc = "callMap"
    /\ mapPoint' = getMapPoint(pickInput.hit, pickInput.size)
    /\ pickPc' = "doneMap"
    /\ UNCHANGED << mainVars, clientVars, pickInput, pickResult >>

\* a call of getGroundPoint(event) of main.js, on an intersection point that
\* may lie off the map
GetGroundPointCall ==
    /\ pickPc = "callGround"
    /\ mapPoint' = getGroundPoint(pickInput.hit, pickInput.size)
    /\ pickPc' = "doneGround"
    /\ UNCHANGED << mainVars, clientVars, pickInput, pickResult >>

PickNext ==
    \/ PickEntityCall
    \/ PickAtEventCall
    \/ GetMapPointCall
    \/ GetGroundPointCall

PickSpec == PickInit /\ [][PickNext]_vars

\* ------------------------------------------------------------------------
\* The matchmaking canvas client (src/unnamed/part_003, lines 316-556): one
\* action per listener.  connect() never calls close(), so a socket leaves
\* CONNECTING or OPEN only through its own close event.
\* ------------------------------------------------------------------------

\* websocket && websocket.readyState === WebSocket.OPEN
matchSocketOpen(m) ==
    m.websocket # 0 /\ m.sockets[m.websocket].readyState = "OPEN"

\* Math.hypot(unit.x - pos.x, unit.y - pos.y) < 1.5, for a pointer on y = 0
withinSelectRadius(unit, x) ==
    4 * ((unit.x - x) * (unit.x - x) + unit.y * unit.y) < 9

\* distance(unit, pos) < 1.25
withinAttackRadius(unit, x) ==
    16 * ((unit.x - x) * (unit.x - x) + unit.y * unit.y) < 25

\* first element of a list within the select radius, Null if none (Array.find)
findHitUnit(units, x) ==
    LET passing == { i \in 1..Len(units) : withinSelectRadius(units[i], x) }
    IN IF passing = {} THEN Null ELSE units[firstIndex(passing)].id

\* findEnemyAt: the first unit within the attack radius among the players
\* other than playerId (in Players, one other player)
findEnemyAt(state, pid, x) ==
    LET others == { p \in DOMAIN state.players : p # pid }
        hits == { p \in others :
                    \E i \in 1..Len(state.players[p].units) :
                        withinAttackRadius(state.players[p].units[i], x) }
    IN IF hits = {} THEN Null
       ELSE LET p == CHOOSE q \in hits : TRUE
                units == state.players[p].units
            IN units[firstIndex({ i \in 1..Len(units) :
                                    withinAttackRadius(units[i], x) })].id

\* updateUi and the winner test of the `state` branch, as the status they leave
statusAfterState(state, pid, current) ==
    LET inCombat == IF pid # Null /\ pid \in DOMAIN state.players
                       /\ state.players[pid].base
                    THEN "In combat" ELSE current
    IN IF state.winner # Null
       THEN (IF state.winner = pid THEN "Victory" ELSE "Defeat")
       ELSE inCombat

\* joinButton click: connect(), which returns at once when websocket is open
\* (a disabled button dispatches no click)
MatchJoinClick ==
    /\ ~match.joinDisabled
    /\ IF matchSocketOpen(match)
       THEN match' = [match EXCEPT !.event = "join", !.sent = << >>]
       ELSE /\ Len(match.sockets) < MaxJoins
            /\ match' = [match EXCEPT
                            !.sockets = Append(@, [readyState |-> "CONNECTING",
                                                   welcomed |-> FALSE]),
                            !.websocket = Len(match.sockets) + 1,
                            !.status = "Connecting",
                            !.event = "join",
                            !.sent = << >>]
    /\ UNCHANGED << mainVars, pickVars, chrono >>

\* the open event of socket s
MatchOpen(s) ==
    /\ match.sockets[s].readyState = "CONNECTING"
    /\ match' = [match EXCEPT !.sockets[s].readyState = "OPEN",
                              !.joinDisabled = TRUE,
                              !.status = "Matchmaking",
                              !.event = "open",
                              !.sent = << >>]
    /\ UNCHANGED << mainVars, pickVars, chrono >>

\* a `welcome` message on socket s (the server sends one per connection)
MatchWelcome(s, pid) ==
    /\ match.sockets[s].readyState = "OPEN"
    /\ ~match.sockets[s].welcomed
    /\ match' = [match EXCEPT !.sockets[s].welcomed = TRUE,
                              !.playerId = pid,
                              !.status = "Awaiting opponent",
                              !.event = "welcome",
                              !.sent = << >>]
    /\ UNCHANGED << mainVars, pickVars, chrono >>

\* a `state` message on socket s
MatchStateMessage(s, state) ==
    /\ match.sockets[s].readyState = "OPEN"
    /\ match.sockets[s].welcomed
    /\ match' = [match EXCEPT
                    !.lastState = << state >>,
                    !.status = statusAfterState(state, match.playerId, @),
                    !.animationHandle = TRUE,
                    !.event = "state",
                    !.sent = << >>]
    /\ UNCHANGED << mainVars, pickVars, chrono >>

\* the close event of socket s: the handler leaves `selection` as it is
MatchClose(s) ==
    /\ match.sockets[s].readyState # "CLOSED"
    /\ match' = [match EXCEPT !.sockets[s].readyState = "CLOSED",
                              !.joinDisabled = FALSE,
                              !.status = "Disconnected",
                              !.playerId = Null,
                              !.lastState = << >>,
                              !.animationHandle = FALSE,
                              !.event = "close",
                              !.sent = << >>]
    /\ UNCHANGED << mainVars, pickVars, chrono >>

\* the error event of socket s (it precedes the close event of a failure)
MatchError(s) ==
    /\ match.sockets[s].readyState # "CLOSED"
    /\ match' = [match EXCEPT !.status = "Connection error",
                              !.event = "error",
                              !.sent = << >>]
    /\ UNCHANGED << mainVars, pickVars, chrono >>

\* a click on a command button
MatchCommandButton ==
    /\ match' = [match EXCEPT
                    !.event = "button",
                    !.sent = IF matchSocketOpen(match)
                             THEN << MatchMessage(match.websocket, "button", Null,
                                                  Null, NoPoint) >>
                             ELSE << >>]
    /\ UNCHANGED << mainVars, pickVars, chrono >>

\* canvas click at world x: select the first own unit under the pointer
MatchCanvasClick(x) ==
    /\ match.lastState # << >>
    /\ match.playerId # Null
    /\ LET players == match.lastState[1].players
           myUnits == IF match.playerId \in DOMAIN players
                      THEN players[match.playerId].units ELSE << >>
           hitUnit == findHitUnit(myUnits, x)
       IN match' = [match EXCEPT
                       !.selection = IF hitUnit # Null THEN hitUnit ELSE @,
                       !.selectionSocket = IF hitUnit # Null THEN match.websocket
                                           ELSE @,
                       !.event = "click",
                       !.sent = << >>]
    /\ UNCHANGED << mainVars, pickVars, chrono >>

\* canvas contextmenu at world x: attack the enemy under the pointer, else move
MatchContextMenu(x) ==
    /\ match.lastState # << >>
    /\ match.playerId # Null
    /\ match.selection # Null
    /\ matchSocketOpen(match)
    /\ LET enemyUnit == findEnemyAt(match.lastState[1], match.playerId, x)
       IN match' = [match EXCEPT
                       !.event = "contextmenu",
                       !.sent = IF enemyUnit # Null
                                THEN << MatchMessage(match.websocket, "attack",
                                                     match.selection, enemyUnit,
                                                     NoPoint) >>
                                ELSE << MatchMessage(match.websocket, "move",
                                                     match.selection, Null,
                                                     << x, 0 >>) >>]
    /\ UNCHANGED << mainVars, pickVars, chrono >>

MatchNext ==
    \/ MatchJoinClick
    \/ \E s \in 1..Len(match.sockets) : MatchOpen(s)
    \/ \E s \in 1..Len(match.sockets), pid \in Players : MatchWelcome(s, pid)
    \/ \E s \in 1..Len(match.sockets), state \in MatchStates :
          MatchStateMessage(s, state)
    \/ \E s \in 1..Len(match.sockets) : MatchClose(s)
    \/ \E s \in 1..Len(match.sockets) : MatchError(s)
    \/ MatchCommandButton
    \/ \E x \in MatchPointers : MatchCanvasClick(x)
    \/ \E x \in MatchPointers : MatchContextMenu(x)

MatchSpec == Init /\ [][MatchNext]_vars

\* ------------------------------------------------------------------------
\* The ChronoFront canvas client (src/unnamed/part_003, lines 1-314): one
\* socket, opened when the script runs and never replaced
\* ------------------------------------------------------------------------

\* squared distance from a unit to a pointer on y = 0
chronoDistance2(unit, x) ==
    (unit.position[1] - x) * (unit.position[1] - x)
    + unit.position[2] * unit.position[2]

\* nearestUnit(position, ownerId): the id of the unit nearer than 3 that is
\* nearest, the earliest in the list among equals; units of other owners are
\* skipped when ownerId is set
nearestUnit(state, x, ownerId) ==
    IF state = << >> THEN Null
    ELSE LET units == state[1].units
             near == { i \in 1..Len(units) :
                         /\ ownerId = Null \/ units[i].owner_id = ownerId
                         /\ chronoDistance2(units[i], x) < 9 }
         IN IF near = {} THEN Null
            ELSE units[CHOOSE i \in near : \A j \in near :
                          \/ chronoDistance2(units[i], x) < chronoDistance2(units[j], x)
                          \/ /\ chronoDistance2(units[i], x) = chronoDistance2(units[j], x)
                             /\ i <= j].id

\* sendAction: the messages that reach socket.send
sendAction(message, readyState) ==
    IF readyState # "OPEN" THEN << >> ELSE << message >>

\* the open event: a line in the event log
ChronoOpen ==
    /\ chrono.readyState = "CONNECTING"
    /\ chrono' = [chrono EXCEPT !.readyState = "OPEN", !.event = "open",
                                !.sent = << >>]
    /\ UNCHANGED << mainVars, pickVars, match >>

\* the close event: a line in the event log
ChronoClose ==
    /\ chrono.readyState # "CLOSED"
    /\ chrono' = [chrono EXCEPT !.readyState = "CLOSED", !.event = "close",
                                !.sent = << >>]
    /\ UNCHANGED << mainVars, pickVars, match >>

\* the `init` message, the first message of the server
ChronoInitMessage(pid, payload) ==
    /\ chrono.readyState = "OPEN"
    /\ chrono.localPlayerId = Null
    /\ chrono' = [chrono EXCEPT !.localPlayerId = pid,
                                !.latestState = << payload >>,
                                !.event = "init",
                                !.sent = << >>]
    /\ UNCHANGED << mainVars, pickVars, match >>

\* a `state` message: latestState is replaced, selectedUnits is not touched
ChronoStateMessage(payload) ==
    /\ chrono.readyState = "OPEN"
    /\ chrono.localPlayerId # Null
    /\ chrono' = [chrono EXCEPT !.latestState = << payload >>,
                                !.event = "state",
                                !.sent = << >>]
    /\ UNCHANGED << mainVars, pickVars, match >>

\* handleRallyButton
ChronoRallyButton ==
    /\ chrono' = [chrono EXCEPT !.rallyMode = TRUE, !.event = "rally",
                                !.sent = << >>]
    /\ UNCHANGED << mainVars, pickVars, match >>

\* a production button: issueProduction
ChronoProductionClick(unitType) ==
    /\ chrono' = [chrono EXCEPT
                    !.event = "produce",
                    !.sent = sendAction(ChronoMessage("spawn_unit", {}, NoPoint,
                                                      unitType),
                                        chrono.readyState)]
    /\ UNCHANGED << mainVars, pickVars, match >>

\* handleCanvasClick at world x: a rally point in rally mode, otherwise the
\* selection becomes the nearest own unit, or nothing
ChronoCanvasClick(x) ==
    /\ IF chrono.rallyMode
       THEN chrono' = [chrono EXCEPT
                          !.rallyMode = FALSE,
                          !.event = "click",
                          !.sent = sendAction(ChronoMessage("set_rally", {},
                                                            << x, 0 >>, Null),
                                              chrono.readyState)]
       ELSE LET unit == nearestUnit(chrono.latestState, x, chrono.localPlayerId)
            IN chrono' = [chrono EXCEPT
                             !.selectedUnits = IF unit # Null THEN {unit} ELSE {},
                             !.event = "click",
                             !.sent = << >>]
    /\ UNCHANGED << mainVars, pickVars, match >>

\* issueMove(target): nothing without a selection, else the selection as it is
issueMove(selected, x, readyState) ==
    IF selected = {} THEN << >>
    ELSE sendAction(ChronoMessage("command_move", selected, << x, 0 >>, Null),
                    readyState)

\* handleCanvasContextMenu at world x
ChronoContextMenu(x) ==
    /\ chrono' = [chrono EXCEPT
                    !.event = "contextmenu",
                    !.sent = issueMove(chrono.selectedUnits, x, chrono.readyState)]
    /\ UNCHANGED << mainVars, pickVars, match >>

ChronoNext ==
    \/ ChronoOpen
    \/ ChronoClose
    \/ \E pid \in Players, payload \in ChronoPayloads : ChronoInitMessage(pid, payload)
    \/ \E payload \in ChronoPayloads : ChronoStateMessage(payload)
    \/ ChronoRallyButton
    \/ \E unitType \in ChronoUnitTypes : ChronoProductionClick(unitType)
    \/ \E x \in ChronoPointers : ChronoCanvasClick(x)
    \/ \E x \in ChronoPointers : ChronoContextMenu(x)

ChronoSpec == Init /\ [][ChronoNext]_vars

\* ------------------------------------------------------------------------
\* Properties
\* ------------------------------------------------------------------------

\* the ids a command refers to on the sender's side
CommandIds(c) == c.unit_ids \cup (IF c.building_id = Null THEN {} ELSE {c.building_id})

SentCommands == { sent[i] : i \in { j \in 1..Len(sent) : sent[j].type = "command" } }

\* C1: between handlers (where a render tick or an input event can run) the
\* keys of unitMeshes, buildingMeshes and resourceMeshes are exactly the unit,
\* building and resource ids of the snapshot held in gameState, the last one
\* received; before the first snapshot the three maps are empty.
MirrorMatchesSnapshot ==
    IF gameState = <<>>
    THEN /\ DOMAIN unitMeshes = {}
         /\ DOMAIN buildingMeshes = {}
         /\ DOMAIN resourceMeshes = {}
    ELSE /\ DOMAIN unitMeshes = DOMAIN gameState[1].units
         /\ DOMAIN buildingMeshes = DOMAIN gameState[1].buildings
         /\ DOMAIN resourceMeshes = gameState[1].resources

\* a snapshot has just replaced another one, creating and disposing meshes
MirrorReplacedWitness ==
    /\ lastEvent.kind = "state"
    /\ created # {}
    /\ disposed # {}
    /\ DOMAIN unitMeshes # {}

\* C2: after the close handler has run, selectedUnits is empty,
\* selectedBuilding is null and playerId is null.
CloseResetsSelection ==
    lastEvent.kind = "close" =>
        /\ selectedUnits = {}
        /\ selectedBuilding = NoBuilding
        /\ playerId = Null

\* a socket closed while a unit and a building were selected
CloseWithSelectionWitness ==
    /\ lastEvent.kind = "close"
    /\ \E u \in lastEvent.selBefore : u \in {"u1", "u2"}
    /\ "b1" \in lastEvent.selBefore
    /\ selectedUnits = {}

\* C3: after the close handler has run, unitMeshes, buildingMeshes and
\* resourceMeshes are empty.
CloseClearsMirror ==
    lastEvent.kind = "close" =>
        /\ DOMAIN unitMeshes = {}
        /\ DOMAIN buildingMeshes = {}
        /\ DOMAIN resourceMeshes = {}

\* C4: every command message is sent on the module's current socket, and
\* that socket is open and has had its join sent; nothing is sent on a
\* socket that is connecting, closing or closed.
CommandsOnlyWhenConnected ==
    \A m \in SentCommands :
        /\ socket # 0
        /\ m.sock = socket
        /\ sockets[socket].readyState = "OPEN"
        /\ sockets[socket].joins > 0

\* a command went out on the second socket after a reconnect
CommandSentWitness ==
    /\ SentCommands # {}
    /\ socket = 2
    /\ lastEvent.kind = "command"

\* C5: no command carries an id that was selected when a connect click
\* replaced the previous socket and has stayed selected since.
NoStaleSelectionSent ==
    \A m \in SentCommands : CommandIds(m.command) \cap staleSel = {}

\* C6: every id in selectedUnits is a unit of the snapshot in gameState and
\* selectedBuilding, if set, is a building of it; with no snapshot nothing is
\* selected.
SelectionAlive ==
    IF gameState = <<>>
    THEN selectedUnits = {} /\ selectedBuilding = NoBuilding
    ELSE /\ selectedUnits \subseteq DOMAIN gameState[1].units
         /\ selectedBuilding # NoBuilding =>
                selectedBuilding.id \in DOMAIN gameState[1].buildings

\* a snapshot arrived that lacks a selected unit and keeps another
SelectionPrunedWitness ==
    /\ lastEvent.kind = "state"
    /\ \E id \in lastEvent.selBefore :
          id \notin SelectionIds(selectedUnits, selectedBuilding)
    /\ selectedUnits # {}

\* C7: a `state` message that carries the snapshot already in gameState
\* creates no mesh, disposes no mesh and leaves the three maps as they were.
ReconcileIdempotent ==
    [][ lastEvent'.kind = "state" =>
            \A s \in 1..Len(sockets), snapshot \in Snapshots :
                (gameState = << snapshot >> /\ StateMessage(s, snapshot)) =>
                    /\ created' = {}
                    /\ disposed' = {}
                    /\ UNCHANGED << unitMeshes, buildingMeshes, resourceMeshes >> ]_vars

\* the same non-empty snapshot has been reconciled twice in a row
ReconciledTwiceWitness ==
    /\ lastEvent.kind = "state"
    /\ lastEvent.repeat
    /\ DOMAIN unitMeshes # {}
    /\ DOMAIN buildingMeshes # {}
    /\ created = {}

\* the target of the last right-click is a resource / belongs to a player
\* other than the local one
TargetIsResource == lastEvent.picked # NoPick /\ lastEvent.picked.kind = "resource"

TargetIsForeign ==
    /\ lastEvent.picked # NoPick
    /\ lastEvent.picked.owner # Null
    /\ lastEvent.picked.owner # playerId

\* C8 as stated: a right-click with units selected always hands exactly one
\* command to sendCommand: harvest on a resource, else attack on a foreign
\* entity, else move.
RightClickYieldsOneOfThree ==
    (lastEvent.kind = "command" /\ selectedUnits # {}) =>
        /\ Len(issued) = 1
        /\ issued[1].action = IF TargetIsResource THEN "harvest"
                              ELSE IF TargetIsForeign THEN "attack"
                              ELSE "move"

\* C8 amended: harvest on a resource, else attack on a foreign entity, else
\* move when the pointer has a ground point; with neither a resource, a
\* foreign entity nor a ground point, no command is handed to sendCommand.
RightClickDisambiguation ==
    (lastEvent.kind = "command" /\ selectedUnits # {}) =>
        IF TargetIsResource
        THEN Len(issued) = 1 /\ issued[1].action = "harvest"
             /\ issued[1].target_id = lastEvent.picked.id
        ELSE IF TargetIsForeign
        THEN Len(issued) = 1 /\ issued[1].action = "attack"
             /\ issued[1].target_id = lastEvent.picked.id
        ELSE IF lastEvent.ground # NoPoint
        THEN Len(issued) = 1 /\ issued[1].action = "move"
        ELSE issued = <<>>

\* a right-click on an enemy unit over the ground was sent as an attack
AttackNotMoveWitness ==
    /\ lastEvent.kind = "command"
    /\ lastEvent.picked.kind = "unit"
    /\ TargetIsForeign
    /\ lastEvent.ground # NoPoint
    /\ Len(sent) = 1
    /\ sent[1].command.action = "attack"

\* C9: every harvest, attack or move command of a right-click carries the
\* units selected at the gesture, and a move carries the gesture's ground
\* point; what reaches the socket is that command.
CommandCarriesSelection ==
    lastEvent.kind = "command" =>
        /\ \A i \in 1..Len(issued) :
              /\ issued[i].action \in {"harvest", "attack", "move"}
              /\ issued[i].unit_ids = selectedUnits
              /\ issued[i].unit_ids \subseteq lastEvent.selBefore
              /\ issued[i].action = "move" =>
                    /\ lastEvent.ground # NoPoint
                    /\ issued[i].position = lastEvent.ground
        /\ \A m \in SentCommands : \E i \in 1..Len(issued) : m.command = issued[i]

\* u1 selected, right-click on empty ground at (50,50): move [u1] to (50,50)
MoveScenarioWitness ==
    /\ lastEvent.kind = "command"
    /\ lastEvent.picked = NoPick
    /\ mapSize = <<96, 64>>
    /\ Len(sent) = 1
    /\ sent[1].command = Command("move", {"u1"}, Null, <<50, 50>>, Null, Null)

\* C10: a build_unit command is sent only for the selected building, and
\* only for a unit type PRODUCTION_OPTIONS lists for the type that building
\* has in the latest snapshot; a production click sends nothing else.
ProductionGated ==
    /\ \A m \in SentCommands :
          m.command.action = "build_unit" =>
              /\ selectedBuilding # NoBuilding
              /\ m.command.building_id = selectedBuilding.id
              /\ gameState # <<>>
              /\ selectedBuilding.id \in DOMAIN gameState[1].buildings
              /\ m.command.unit_type \in
                    renderProductionButtons(
                        gameState[1].buildings[selectedBuilding.id].type)
    /\ lastEvent.kind = "produce" =>
          \A m \in SentCommands : m.command.action = "build_unit"

\* a production click on a selected barracks sent a build_unit
BuildUnitSentWitness ==
    /\ lastEvent.kind = "produce"
    /\ Len(sent) = 1
    /\ sent[1].command.action = "build_unit"
    /\ sent[1].command.unit_type = lastEvent.unit

\* the entities of the picked world that pass their category's test
QualifyingUnits ==
    IF pickInput.state = <<>> THEN {}
    ELSE { i \in 1..Len(pickInput.state[1].units) :
             unitQualifies(pickInput.client, pickInput.state[1].units[i],
                           pickInput.x, pickInput.y) }

QualifyingBuildings ==
    IF pickInput.state = <<>> THEN {}
    ELSE { i \in 1..Len(pickInput.state[1].buildings) :
             buildingQualifies(pickInput.client, pickInput.state[1].buildings[i],
                               pickInput.x, pickInput.y) }

QualifyingResources ==
    IF pickInput.state = <<>> THEN {}
    ELSE { i \in 1..Len(pickInput.state[1].resources) :
             resourceQualifies(pickInput.client, pickInput.state[1].resources[i],
                               pickInput.x, pickInput.y) }

\* C11: pickEntity returns a qualifying unit whenever a unit qualifies, a
\* qualifying building only when no unit qualifies, a qualifying resource only
\* when neither does, and null exactly when nothing qualifies.
PickPriority ==
    pickPc = "done2d" =>
        /\ (pickResult.kind = "unit") <=> (QualifyingUnits # {})
        /\ (pickResult.kind = "building") <=>
              (QualifyingUnits = {} /\ QualifyingBuildings # {})
        /\ (pickResult.kind = "resource") <=>
              (QualifyingUnits = {} /\ QualifyingBuildings = {}
               /\ QualifyingResources # {})
        /\ (pickResult = NoPick) <=>
              (QualifyingUnits = {} /\ QualifyingBuildings = {}
               /\ QualifyingResources = {})
        /\ pickResult.kind = "unit" =>
              \E i \in QualifyingUnits : pickInput.state[1].units[i].id = pickResult.id
        /\ pickResult.kind = "building" =>
              \E i \in QualifyingBuildings :
                  pickInput.state[1].buildings[i].id = pickResult.id
        /\ pickResult.kind = "resource" =>
              \E i \in QualifyingResources :
                  pickInput.state[1].resources[i].id = pickResult.id

\* a unit, a building and a resource all qualified and the unit was returned
PickOverlapWitness ==
    /\ pickPc = "done2d"
    /\ QualifyingUnits # {}
    /\ QualifyingBuildings # {}
    /\ QualifyingResources # {}
    /\ pickResult.kind = "unit"

\* C12: when the ray of pickEntityAtEvent goes through a unit mesh and a
\* building mesh, the unit is returned.
RayPrefersUnit ==
    ( /\ pickPc = "doneRay"
      /\ \E i \in 1..Len(pickInput.intersections) :
            pickInput.intersections[i].kind = "unit"
      /\ \E i \in 1..Len(pickInput.intersections) :
            pickInput.intersections[i].kind = "building" )
    => pickResult.kind = "unit"

\* squared distance from the pointer to a listed unit
UnitDistance2(i) ==
    LET q == pickInput.state[1].units[i].position
    IN (q[1] - pickInput.x) * (q[1] - pickInput.x)
       + (q[2] - pickInput.y) * (q[2] - pickInput.y)

\* C13: when several units qualify, pickEntity returns one that no other
\* qualifying unit is nearer than.
PickNearestUnit ==
    (pickPc = "done2d" /\ pickResult.kind = "unit") =>
        \E i \in QualifyingUnits :
            /\ pickInput.state[1].units[i].id = pickResult.id
            /\ \A j \in QualifyingUnits : UnitDistance2(i) <= UnitDistance2(j)

\* C14: a non-additive click on a unit of the local player leaves exactly
\* that unit selected and no building; on a building of the local player it
\* leaves exactly that building selected and no unit.
PrimaryClickSelectsOwned ==
    ( /\ lastEvent.kind = "select"
      /\ ~lastEvent.additive
      /\ lastEvent.picked # NoPick
      /\ lastEvent.picked.owner = playerId )
    => /\ lastEvent.picked.kind = "unit" =>
              /\ selectedUnits = {lastEvent.picked.id}
              /\ selectedBuilding = NoBuilding
       /\ lastEvent.picked.kind = "building" =>
              /\ selectedUnits = {}
              /\ selectedBuilding = [id |-> lastEvent.picked.id,
                                     type |-> lastEvent.picked.type]

\* with u1 and u2 selected, a plain click on the player's own building
PrimaryClickReplacesWitness ==
    /\ lastEvent.kind = "select"
    /\ ~lastEvent.additive
    /\ playerId # Null
    /\ lastEvent.picked.kind = "building"
    /\ lastEvent.picked.owner = playerId
    /\ {"u1", "u2"} \subseteq lastEvent.selBefore
    /\ selectedBuilding # NoBuilding

\* the selected entities all belong to the local player
SelectedAreOwned ==
    /\ \A id \in selectedUnits :
          /\ playerId # Null
          /\ id \in DOMAIN unitMeshes
          /\ unitMeshes[id].owner = playerId
    /\ selectedBuilding # NoBuilding =>
          /\ playerId # Null
          /\ selectedBuilding.id \in DOMAIN buildingMeshes
          /\ buildingMeshes[selectedBuilding.id].owner = playerId

\* C15: a non-additive click that picks nothing, a resource or an entity of
\* another player empties the selection, and no non-additive click leaves an
\* entity selected that the local player does not own.
PrimaryClickNeverSelectsForeign ==
    (lastEvent.kind = "select" /\ ~lastEvent.additive) =>
        /\ ( \/ lastEvent.picked = NoPick
             \/ lastEvent.picked.kind = "resource"
             \/ lastEvent.picked.owner \notin {Null, playerId} )
           => (selectedUnits = {} /\ selectedBuilding = NoBuilding)
        /\ SelectedAreOwned

\* C16: selectedUnits is never non-empty while selectedBuilding is set.
SelectionExclusive ==
    ~(selectedUnits # {} /\ selectedBuilding # NoBuilding)

\* the click is a shift-click on a unit / building of the local player
AdditiveOwnedClick(picked, kind) ==
    /\ picked.kind = kind
    /\ picked.owner = playerId
    /\ lastEvent'.kind = "select"
    /\ SelectClick(picked, TRUE)

\* C17: a shift-click on an unselected unit of the local player while a
\* building is selected leaves no building selected and the unit selected.
AdditiveUnitClearsBuilding ==
    [][ \A picked \in PickResults :
            ( /\ AdditiveOwnedClick(picked, "unit")
              /\ picked.id \notin selectedUnits
              /\ selectedBuilding # NoBuilding )
            => (selectedBuilding' = NoBuilding /\ picked.id \in selectedUnits') ]_vars

\* C18: a shift-click on a unit of the local player removes it from
\* selectedUnits if it was in it and adds it otherwise, changes no other
\* member, and a second shift-click on it would restore the set.
AdditiveUnitToggles ==
    [][ \A picked \in PickResults :
            AdditiveOwnedClick(picked, "unit") =>
                /\ selectedUnits' = IF picked.id \in selectedUnits
                                    THEN selectedUnits \ {picked.id}
                                    ELSE selectedUnits \cup {picked.id}
                /\ handleSelection(picked, TRUE, selectedUnits', selectedBuilding',
                                   playerId').units = selectedUnits ]_vars

\* u1 was shift-clicked off while u2 stays selected
ToggleOffWitness ==
    /\ lastEvent.kind = "select"
    /\ lastEvent.additive
    /\ lastEvent.picked.kind = "unit"
    /\ lastEvent.picked.owner = playerId
    /\ lastEvent.picked.id = "u1"
    /\ "u1" \in lastEvent.selBefore
    /\ selectedUnits = {"u2"}

\* C19: a shift-click on the selected building of the local player leaves
\* nothing selected; a shift-click on another building of the local player
\* leaves that building selected and nothing else.
AdditiveBuildingToggles ==
    [][ \A picked \in PickResults :
            ( /\ AdditiveOwnedClick(picked, "building")
              /\ selectedBuilding # NoBuilding )
            => /\ selectedUnits' = {}
               /\ selectedBuilding' = IF selectedBuilding.id = picked.id
                                      THEN NoBuilding
                                      ELSE [id |-> picked.id, type |-> picked.type] ]_vars

\* C20: a unit id enters selectedUnits only while playerId is assigned and
\* the unit's owner is that player.
InsertOnlyOwnedUnits ==
    [][ \A id \in selectedUnits' \ selectedUnits :
            /\ playerId # Null
            /\ id \in DOMAIN unitMeshes
            /\ unitMeshes[id].owner = playerId ]_vars

\* the status changes of the session state machine, each with its event
StatusStepAllowed(before, event, after) ==
    \/ before = "Disconnected" /\ event = "connect" /\ after = "Connecting"
    \/ before = "Connecting" /\ event = "open" /\ after = "Connected"
    \/ before = "Connected" /\ event = "close" /\ after = "Disconnected"

\* C21: the status label changes only from disconnected to connecting on a
\* connect click, from connecting to connected on the open event, and from
\* connected to disconnected on a close event; and it never reads
\* disconnected while the current socket is open.
StatusFollowsStateMachine ==
    [][ /\ statusLabel' # statusLabel =>
              StatusStepAllowed(statusLabel, lastEvent'.kind, statusLabel')
        /\ ~( /\ statusLabel' = "Disconnected"
              /\ socket' # 0
              /\ sockets'[socket'].readyState = "OPEN" ) ]_vars

\* C22: the list of sockets grows, and the module's `socket` is reassigned,
\* only in the turn of a connect click.
ReconnectOnlyByClick ==
    [][ (Len(sockets') # Len(sockets) \/ socket' # socket) =>
            lastEvent'.kind = "connect" ]_vars

\* the first socket has closed and a connect click has made the second one
ReconnectByClickWitness ==
    /\ lastEvent.kind = "connect"
    /\ Len(sockets) = 2
    /\ socket = 2
    /\ sockets[1].readyState = "CLOSED"
    /\ sockets[1].welcomed

\* C23: whenever playerId is assigned, the module's current socket has
\* received its welcome; so from a connect click until the welcome of the
\* new socket playerId is null.
PlayerIdFromCurrentHandshake ==
    playerId # Null => (socket # 0 /\ sockets[socket].welcomed)

\* C24: a socket has had no join sent while it connects and exactly one from
\* its open event on; the open handler sends that join and nothing else, on
\* the socket that opened; a command is sent only on a socket whose join has
\* been sent, in a later turn.
JoinSentOnceAndFirst ==
    /\ \A s \in 1..Len(sockets) :
          /\ sockets[s].joins <= 1
          /\ sockets[s].readyState = "CONNECTING" => sockets[s].joins = 0
          /\ sockets[s].readyState = "OPEN" => sockets[s].joins = 1
    /\ lastEvent.kind = "open" => sent = << JoinMessage(lastEvent.sock) >>
    /\ \A i \in 1..Len(sent) :
          /\ sent[i].type = "join" => lastEvent.kind = "open"
          /\ sent[i].type = "command" =>
                /\ lastEvent.kind # "open"
                /\ sockets[sent[i].sock].joins = 1

\* the second connection has just opened and sent its own join
SecondJoinWitness ==
    /\ lastEvent.kind = "open"
    /\ lastEvent.sock = 2
    /\ sent = << JoinMessage(2) >>
    /\ sockets[1].joins = 1
    /\ sockets[2].joins = 1

\* C25: every unit id of a command that is sent is a key of unitMeshes, and
\* the building id of a build_unit that is sent is a key of buildingMeshes,
\* in the state the command is sent from.
SentIdsInMirror ==
    \A m \in SentCommands :
        /\ m.command.unit_ids \subseteq DOMAIN unitMeshes
        /\ m.command.action = "build_unit" =>
              m.command.building_id \in DOMAIN buildingMeshes

\* a command went out for u2 alone after u1 had left the mirror
CommandWithoutVanishedWitness ==
    /\ lastEvent.kind = "command"
    /\ Len(sent) = 1
    /\ sent[1].command.unit_ids = {"u2"}
    /\ "u1" \notin DOMAIN unitMeshes
    /\ DOMAIN buildingMeshes # {}

\* the keys of the mesh maps are the ids of the lists gameState has
MirrorAgreesWhereListed ==
    gameState # <<>> =>
        /\ "units" \in DOMAIN gameState[1] =>
              DOMAIN unitMeshes = DOMAIN gameState[1].units
        /\ "buildings" \in DOMAIN gameState[1] =>
              DOMAIN buildingMeshes = DOMAIN gameState[1].buildings
        /\ "resources" \in DOMAIN gameState[1] =>
              DOMAIN resourceMeshes = gameState[1].resources

\* C26: a message of an unknown type, and a `state` message whose payload
\* lacks units, buildings or resources, leave selectedUnits, selectedBuilding
\* and the three mesh maps as they were, and afterwards the mesh maps still
\* agree with gameState.
MalformedLeavesState ==
    [][ lastEvent'.kind \in {"unexpected", "malformed"} =>
            /\ UNCHANGED << selectedUnits, selectedBuilding, unitMeshes,
                            buildingMeshes, resourceMeshes >>
            /\ MirrorAgreesWhereListed' ]_vars

\* C27: the key sets of unitMeshes, buildingMeshes and resourceMeshes change
\* only in the turn of a `state` message.
MirrorSingleWriter ==
    [][ ( \/ DOMAIN unitMeshes' # DOMAIN unitMeshes
          \/ DOMAIN buildingMeshes' # DOMAIN buildingMeshes
          \/ DOMAIN resourceMeshes' # DOMAIN resourceMeshes )
        => lastEvent'.kind = "state" ]_vars

\* a render tick ran over a populated mirror with a unit and a building
\* highlighted
RenderTickWitness ==
    /\ lastEvent.kind = "animate"
    /\ DOMAIN unitMeshes # {}
    /\ DOMAIN buildingMeshes # {}
    /\ DOMAIN resourceMeshes # {}
    /\ selectedUnits # {}
    /\ selectedBuilding # NoBuilding

\* C28: a `state` message is processed only when it comes from the module's
\* current socket while that socket is open; a socket that has closed, or
\* that a connect click has replaced, delivers none.
NoSnapshotFromDeadSocket ==
    lastEvent.kind = "state" =>
        /\ lastEvent.sock = socket
        /\ sockets[lastEvent.sock].readyState = "OPEN"

\* the second socket delivered a snapshot while the first, once open and
\* welcomed, was still closing
SnapshotAfterReconnectWitness ==
    /\ lastEvent.kind = "state"
    /\ lastEvent.sock = 2
    /\ sockets[1].readyState = "CLOSING"
    /\ sockets[1].welcomed
    /\ gameState # <<>>

InBounds(point, size) ==
    /\ 0 <= point[1] /\ point[1] <= size[1]
    /\ 0 <= point[2] /\ point[2] <= size[2]

\* C29: getMapPoint and getGroundPoint return null or a point inside
\* [0, mapSize[0]] x [0, mapSize[1]], null when the ray misses, and the
\* position of every move command sent lies inside the current map.
MappedPointsInBounds ==
    /\ \A m \in SentCommands :
          m.command.action = "move" => InBounds(m.command.position, mapSize)
    /\ pickPc \in {"doneMap", "doneGround"} =>
          /\ mapPoint = NoPoint \/ InBounds(mapPoint, pickInput.size)
          /\ pickInput.hit = NoPoint => mapPoint = NoPoint

\* a right-click whose ray met the ground at (97,-3) was sent as a move to
\* the map's corner (96,0)
ClampedMoveWitness ==
    /\ lastEvent.kind = "command"
    /\ Len(sent) = 1
    /\ sent[1].command.action = "move"
    /\ mapSize = <<96, 64>>
    /\ sent[1].command.position = <<96, 0>>

\* C30: a right-click sends at most one command message, none when no unit
\* is selected, and none when the pointer is over neither a resource nor a
\* foreign entity and has no ground point.
RightClickSendsAtMostOne ==
    lastEvent.kind = "command" =>
        /\ Len(sent) <= 1
        /\ \A i \in 1..Len(sent) : sent[i].type = "command"
        /\ selectedUnits = {} => sent = <<>>
        /\ (~TargetIsResource /\ ~TargetIsForeign /\ lastEvent.ground = NoPoint)
              => sent = <<>>

\* with a unit selected and the socket open, a right-click on an own unit
\* off the ground sent nothing
NothingToCommandWitness ==
    /\ lastEvent.kind = "command"
    /\ selectedUnits # {}
    /\ playerId # Null
    /\ lastEvent.picked.kind = "unit"
    /\ lastEvent.picked.owner = playerId
    /\ lastEvent.ground = NoPoint
    /\ socket # 0
    /\ sockets[socket].readyState = "OPEN"
    /\ sent = <<>>

\* C31: after the close handler of the matchmaking client `selection` is
\* null, and every attack or move sent carries a unit that was selected while
\* the socket it is sent on was the client's socket.
MatchCloseResetsSelection ==
    /\ match.event = "close" => match.selection = Null
    /\ \A i \in 1..Len(match.sent) :
          match.sent[i].action \in {"attack", "move"} =>
              match.selectionSocket = match.sent[i].sock

\* the ids of the units of latestState
ChronoUnitIds ==
    IF chrono.latestState = << >> THEN {}
    ELSE { chrono.latestState[1].units[i].id :
             i \in 1..Len(chrono.latestState[1].units) }

\* C32: every unit id of a command_move sent by the ChronoFront client is
\* the id of a unit of latestState.
ChronoMoveIdsInState ==
    \A i \in 1..Len(chrono.sent) :
        chrono.sent[i].type = "command_move" =>
            chrono.sent[i].unit_ids \subseteq ChronoUnitIds

\* C33: when the close event of a replaced socket arrives after the current
\* socket has received its welcome, playerId stays assigned and the
\* selection stays as it was.
StaleCloseLeavesSession ==
    ( /\ lastEvent.kind = "close"
      /\ socket # 0
      /\ lastEvent.sock # socket
      /\ sockets[socket].readyState = "OPEN"
      /\ sockets[socket].welcomed )
    => /\ playerId # Null
       /\ SelectionIds(selectedUnits, selectedBuilding) = lastEvent.selBefore

\* C34: every id in selectedUnits is a unit of the snapshot in gameState
\* whose owner equals playerId, and selectedBuilding, if set, is a building
\* of it whose owner equals playerId.
SelectionOwnedInSnapshot ==
    /\ \A id \in selectedUnits :
          /\ gameState # <<>>
          /\ id \in DOMAIN gameState[1].units
          /\ gameState[1].units[id].owner = playerId
    /\ selectedBuilding # NoBuilding =>
          /\ gameState # <<>>
          /\ selectedBuilding.id \in DOMAIN gameState[1].buildings
          /\ gameState[1].buildings[selectedBuilding.id].owner = playerId

\* C35: the unit types with a production button are those PRODUCTION_OPTIONS
\* lists for the type the selected building has in the snapshot in
\* gameState, and there is none when no building is selected.
ButtonsMatchSelection ==
    IF selectedBuilding = NoBuilding THEN buttons = {}
    ELSE /\ gameState # <<>>
         /\ selectedBuilding.id \in DOMAIN gameState[1].buildings
         /\ LET type == gameState[1].buildings[selectedBuilding.id].type
            IN buttons = IF type \in DOMAIN PRODUCTION_OPTIONS
                         THEN PRODUCTION_OPTIONS[type] ELSE {}

\* the selected building changed type with a snapshot and offers nothing now
ButtonsFollowTypeWitness ==
    /\ lastEvent.kind = "state"
    /\ "b1" \in lastEvent.selBefore
    /\ selectedBuilding # NoBuilding
    /\ selectedBuilding.type = "power_plant"
    /\ buttons = {}

\* C36: a shift-click that picks nothing, a resource, or an entity the local
\* player does not own (its owner differs from playerId, or no player id is
\* assigned) leaves the selection as it was.
AdditiveMissLeavesSelection ==
    ( /\ lastEvent.kind = "select"
      /\ lastEvent.additive
      /\ \/ lastEvent.picked = NoPick
         \/ lastEvent.picked.kind = "resource"
         \/ lastEvent.picked.owner # playerId
         \/ playerId = Null )
    => SelectionIds(selectedUnits, selectedBuilding) = lastEvent.selBefore

SnapshotIds(kind) ==
    IF gameState = <<>> THEN {}
    ELSE IF kind = "unit" THEN DOMAIN gameState[1].units
    ELSE IF kind = "building" THEN DOMAIN gameState[1].buildings
    ELSE gameState[1].resources

\* C38: a selection or command gesture is processed only once gameState
\* holds a snapshot, and what it picks is an entity of that snapshot; while
\* gameState is null nothing is selected and nothing is sent; and the
\* snapshot is kept for as long as the mesh maps hold anything, also after a
\* close.
GesturesNeedSnapshot ==
    /\ lastEvent.kind \in {"select", "command"} =>
          /\ gameState # <<>>
          /\ lastEvent.picked # NoPick =>
                lastEvent.picked.id \in SnapshotIds(lastEvent.picked.kind)
    /\ gameState = <<>> =>
          /\ selectedUnits = {}
          /\ selectedBuilding = NoBuilding
          /\ SentCommands = {}
    /\ Pickables # {} => gameState # <<>>

\* after the only socket closed, a click picked a unit of the last snapshot
GestureAfterCloseWitness ==
    /\ lastEvent.kind = "select"
    /\ Len(sockets) = 1
    /\ sockets[1].readyState = "CLOSED"
    /\ lastEvent.picked.kind = "unit"
    /\ gameState # <<>>

\* C39: at most one socket of the matchmaking client is connecting or open.
MatchSingleLiveSocket ==
    Cardinality({ s \in 1..Len(match.sockets) :
                    match.sockets[s].readyState \in {"CONNECTING", "OPEN"} }) <= 1

====
